---- MODULE Spec2Model ----
(***************************************************************************)
(* APIUtils of src/js/utils.js: fetchWithRetry (bounded retry loop with    *)
(* rate-limit detection and exponential backoff) and fetchWithCORS (the    *)
(* allow-list check, one direct request, then the proxy list in order).    *)
(*                                                                         *)
(* Strings are sequences of characters: endsWith, concatenation,           *)
(* encodeURIComponent and parseInt are computed character by character.    *)
(* A call is an async function: it runs from one suspension point (an      *)
(* awaited fetch, an awaited timer) to the next in one step.               *)
(***************************************************************************)
EXTENDS Integers, Sequences, FiniteSets

\* ------------------------------------------------------------------ bounds

\* Largest maxRetries a caller passes to fetchWithRetry.
MaxRetriesBound == 6

\* Calls with maxRetries up to FullDepth meet every transport outcome; deeper
\* calls meet the basic ones only (a throw, a 200, a 500).
FullDepth == 3

\* ----------------------------------------------------------------- strings

Min(a, b) == IF a <= b THEN a ELSE b

Max(a, b) == IF a >= b THEN a ELSE b

\* String.prototype.startsWith
StartsWith(s, pre) ==
  Len(s) >= Len(pre) /\ SubSeq(s, 1, Len(pre)) = pre

\* String.prototype.endsWith
EndsWith(s, suf) ==
  Len(s) >= Len(suf) /\ SubSeq(s, Len(s) - Len(suf) + 1, Len(s)) = suf

\* A header that is not set reads as null; null and the empty string behave
\* alike in every use below (not === '0', parseInt gives NaN).
Null == ""

\* The characters with the codes 32 to 95 and 97 to 126, in the order of their
\* codes (a string constant cannot hold the grave accent, code 96).
Printable ==
  " !\"#$%&'()*+,-./0123456789:;<=>?@ABCDEFGHIJKLMNOPQRSTUVWXYZ[\\]^_abcdefghijklmnopqrstuvwxyz{|}~"

Uppers == "ABCDEFGHIJKLMNOPQRSTUVWXYZ"

Lowers == "abcdefghijklmnopqrstuvwxyz"

Digits == "0123456789"

HexDigits == "0123456789ABCDEF"

\* The position of the character ch in the string tbl, 0 when it is not there.
IndexOf(ch, tbl) ==
  IF \E k \in 1..Len(tbl) : SubSeq(tbl, k, k) = ch
    THEN CHOOSE k \in 1..Len(tbl) : SubSeq(tbl, k, k) = ch
    ELSE 0

\* The characters of the string tbl.
CharSet(tbl) == { SubSeq(tbl, k, k) : k \in 1..Len(tbl) }

\* The code of each character a string can hold: the characters of Printable,
\* and tab, line feed, form feed and carriage return.
CodeTable ==
  [ch \in CharSet(Printable) \cup {"\t", "\n", "\f", "\r"} |->
     CASE IndexOf(ch, Printable) \in 1..64 -> IndexOf(ch, Printable) + 31
       [] IndexOf(ch, Printable) > 64 -> IndexOf(ch, Printable) + 32
       [] ch = "\t" -> 9
       [] ch = "\n" -> 10
       [] ch = "\f" -> 12
       [] ch = "\r" -> 13]

\* The code of a character.
CharCode(ch) == CodeTable[ch]

\* The character with the code n, for the codes of Printable.
CharOfCode(n) ==
  IF n < 96 THEN SubSeq(Printable, n - 31, n - 31) ELSE SubSeq(Printable, n - 32, n - 32)

DigitSet == CharSet(Digits)

LetterSet == CharSet(Uppers) \cup CharSet(Lowers)

IsDigit(ch) == ch \in DigitSet

IsAlpha(ch) == ch \in LetterSet

IsAlnum(ch) == IsAlpha(ch) \/ IsDigit(ch)

\* The lower-case form of each upper-case letter.
LowerTable ==
  [ch \in CharSet(Uppers) |-> SubSeq(Lowers, IndexOf(ch, Uppers), IndexOf(ch, Uppers))]

\* The lower-case form of one character.
LowerChar(ch) == IF ch \in DOMAIN LowerTable THEN LowerTable[ch] ELSE ch

RECURSIVE ToLower(_)
\* ASCII lower-casing of a string.
ToLower(s) == IF s = "" THEN "" ELSE LowerChar(Head(s)) \o ToLower(Tail(s))

\* The value of each character that is a digit: 0..15 for 0-9, a-f and A-F.
DigitTable ==
  [ch \in CharSet("0123456789abcdefABCDEF") |->
     IF IndexOf(ch, Digits) > 0 THEN IndexOf(ch, Digits) - 1
     ELSE IF IndexOf(ch, "abcdef") > 0 THEN IndexOf(ch, "abcdef") + 9
     ELSE IndexOf(ch, "ABCDEF") + 9]

\* The value of ch as a digit; -1 for no digit.
DigitValue(ch) == IF ch \in DOMAIN DigitTable THEN DigitTable[ch] ELSE -1

\* ch is a digit of the radix.
IsRadixDigit(ch, radix) == DigitValue(ch) >= 0 /\ DigitValue(ch) < radix

RECURSIVE DigitsValue(_, _, _)
\* The leading run of digits of the radix in s, read left to right from acc.
DigitsValue(s, radix, acc) ==
  IF s = "" \/ ~IsRadixDigit(Head(s), radix) THEN acc
  ELSE DigitsValue(Tail(s), radix, radix * acc + DigitValue(Head(s)))

RECURSIVE IntToString(_)
\* The decimal numeral of n >= 0.
IntToString(n) ==
  IF n < 10 THEN SubSeq(Digits, n + 1, n + 1)
  ELSE IntToString(n \div 10) \o SubSeq(Digits, (n % 10) + 1, (n % 10) + 1)

\* The white space parseInt and the URL parser strip: the space and the
\* control characters a string of the model can hold.
WhiteSpace == {" ", "\t", "\n", "\f", "\r"}

RECURSIVE TrimStart(_)
TrimStart(s) ==
  IF s # "" /\ Head(s) \in WhiteSpace THEN TrimStart(Tail(s)) ELSE s

RECURSIVE TrimEnd(_)
TrimEnd(s) ==
  IF s # "" /\ SubSeq(s, Len(s), Len(s)) \in WhiteSpace
    THEN TrimEnd(SubSeq(s, 1, Len(s) - 1))
    ELSE s

\* A JavaScript number: an integer, or NaN.
Num(k) == [nan |-> FALSE, n |-> k]

NaN == [nan |-> TRUE, n |-> 0]

\* a * b and a - b on numbers: NaN when an operand is NaN.
Times(a, b) == IF a.nan \/ b.nan THEN NaN ELSE Num(a.n * b.n)

Minus(a, b) == IF a.nan \/ b.nan THEN NaN ELSE Num(a.n - b.n)

\* The end of parseInt: the leading run of digits of the radix in body is
\* the value, with the sign; NaN when that run is empty.
ParseDigits(body, radix, sign) ==
  IF body = "" \/ ~IsRadixDigit(Head(body), radix) THEN NaN
  ELSE Num(sign * DigitsValue(body, radix, 0))

\* parseInt after the sign: the prefix 0x or 0X selects radix 16.
ParseRadix(u, sign) ==
  IF Len(u) >= 2 /\ SubSeq(u, 1, 2) \in {"0x", "0X"}
    THEN ParseDigits(SubSeq(u, 3, Len(u)), 16, sign)
    ELSE ParseDigits(u, 10, sign)

\* parseInt after the white space: a sign is read.
ParseSign(t) ==
  IF t # "" /\ Head(t) = "-" THEN ParseRadix(Tail(t), -1)
  ELSE IF t # "" /\ Head(t) = "+" THEN ParseRadix(Tail(t), 1)
  ELSE ParseRadix(t, 1)

\* parseInt(string) without a radix: leading white space is skipped, a sign is
\* read, the prefix 0x or 0X selects radix 16, and the leading run of digits
\* of the radix is the value; NaN when that run is empty.
ParseInt(s) == ParseSign(TrimStart(s))

\* The characters encodeURIComponent keeps, besides letters and digits.
UriMarks == {"-", "_", ".", "!", "~", "*", "'", "(", ")"}

\* "%" and the two upper-case hexadecimal digits of the code n < 256.
PercentByte(n) ==
  "%" \o SubSeq(HexDigits, (n \div 16) + 1, (n \div 16) + 1)
      \o SubSeq(HexDigits, (n % 16) + 1, (n % 16) + 1)

\* encodeURIComponent on one character: letters, digits and the marks are
\* kept, every other character is the escape of its code.
EncodeChar(ch) ==
  IF IsAlnum(ch) \/ ch \in UriMarks THEN ch ELSE PercentByte(CharCode(ch))

RECURSIVE encodeURIComponent(_)
encodeURIComponent(s) ==
  IF s = "" THEN "" ELSE EncodeChar(Head(s)) \o encodeURIComponent(Tail(s))

\* ------------------------------------------------------------ configuration

RawHost == "raw.githubusercontent.com"

ApiHost == "api.github.com"

allowedDomains == <<RawHost, ApiHost>>

Proxy0 == "https://api.allorigins.win/raw?url="

Proxy1 == "https://corsproxy.io/?"

proxies == <<Proxy0, Proxy1>>

\* ------------------------------------------------------------- URL parsing
\* new URL(url) without a base, as far as the host: the steps of the URL
\* parser that decide whether the string parses and what its hostname is.

\* The outcome of a parsing step: failure, or the text it yields, or an
\* outcome that lies beyond the model.  The third is the outcome of a host
\* that holds a character outside Printable or a label that starts with
\* "xn--": what domain-to-ASCII makes of it is decided by the tables of
\* Unicode, so the parser may fail on it or yield some hostname.
Failure == [ok |-> FALSE, beyond |-> FALSE, text |-> ""]

Success(text) == [ok |-> TRUE, beyond |-> FALSE, text |-> text]

Beyond == [ok |-> FALSE, beyond |-> TRUE, text |-> ""]

RECURSIVE Remove(_, _)
\* s without the characters of the set drop.
Remove(s, drop) ==
  IF s = "" THEN ""
  ELSE IF Head(s) \in drop THEN Remove(Tail(s), drop)
  ELSE Head(s) \o Remove(Tail(s), drop)

\* The input the parser works on: leading and trailing control characters and
\* spaces are stripped, tabs and newlines are removed everywhere.
Cleaned(u) == Remove(TrimEnd(TrimStart(u)), {"\t", "\n", "\r"})

RECURSIVE TakeUntil(_, _)
\* The characters of s before the first one of the set ends.
TakeUntil(s, ends) ==
  IF s = "" \/ Head(s) \in ends THEN "" ELSE Head(s) \o TakeUntil(Tail(s), ends)

RECURSIVE SkipWhile(_, _)
\* s without its leading run of characters of the set skip.
SkipWhile(s, skip) ==
  IF s # "" /\ Head(s) \in skip THEN SkipWhile(Tail(s), skip) ELSE s

\* s has a character of the set.
HasCharOf(s, set) == \E k \in 1..Len(s) : SubSeq(s, k, k) \in set

RECURSIVE DropThrough(_, _)
\* s after its first character of the set ends.
DropThrough(s, ends) ==
  IF s = "" THEN "" ELSE IF Head(s) \in ends THEN Tail(s) ELSE DropThrough(Tail(s), ends)

RECURSIVE SplitOn(_, _)
\* s split strictly at the character sep: "a..b" gives <<"a", "", "b">>.
SplitOn(s, sep) ==
  IF ~HasCharOf(s, {sep}) THEN <<s>>
  ELSE <<TakeUntil(s, {sep})>> \o SplitOn(DropThrough(s, {sep}), sep)

\* Every character of s satisfies: is a digit of the radix.
AllRadixDigits(s, radix) ==
  \A k \in 1..Len(s) : IsRadixDigit(SubSeq(s, k, k), radix)

\* The position of the last ch in s, 0 when there is none.
LastIndexOf(ch, s) ==
  IF \E k \in 1..Len(s) : SubSeq(s, k, k) = ch
    THEN CHOOSE k \in 1..Len(s) :
           SubSeq(s, k, k) = ch /\ \A j \in (k + 1)..Len(s) : SubSeq(s, j, j) # ch
    ELSE 0

\* The schemes with a host of their own rules.
SpecialSchemes == {"ftp", "file", "http", "https", "ws", "wss"}

\* The characters of a scheme after its first letter.
IsSchemeChar(ch) == IsAlnum(ch) \/ ch \in {"+", "-", "."}

RECURSIVE SchemeRun(_)
\* The leading run of scheme characters of s.
SchemeRun(s) ==
  IF s = "" \/ ~IsSchemeChar(Head(s)) THEN "" ELSE Head(s) \o SchemeRun(Tail(s))

\* s starts with a scheme: a letter, scheme characters, then ":".
HasScheme(s) ==
  /\ s # "" /\ IsAlpha(Head(s))
  /\ Len(SchemeRun(s)) < Len(s)
  /\ SubSeq(s, Len(SchemeRun(s)) + 1, Len(SchemeRun(s)) + 1) = ":"

Scheme(s) == ToLower(SchemeRun(s))

AfterScheme(s) == SubSeq(s, Len(SchemeRun(s)) + 2, Len(s))

\* Code points no host may hold, and those no domain may hold in addition
\* (the control characters a string can hold are tab, line feed, form feed
\* and carriage return).
ForbiddenHost ==
  {"\t", "\n", "\r", " ", "#", "/", ":", "<", ">", "?", "@", "[", "\\", "]", "^", "|"}

ForbiddenDomain == ForbiddenHost \cup {"\f", "%"}

\* s starts with "%" and two hexadecimal digits.
IsEscape(s) ==
  /\ Len(s) >= 3 /\ Head(s) = "%"
  /\ IsRadixDigit(SubSeq(s, 2, 2), 16)
  /\ IsRadixDigit(SubSeq(s, 3, 3), 16)

\* The byte of the escape s starts with.
EscapeByte(s) == 16 * DigitValue(SubSeq(s, 2, 2)) + DigitValue(SubSeq(s, 3, 3))

\* The UTF-8 decoder on a lead byte: the number of continuation bytes that
\* follow it (0 for a byte that starts no character), and the bounds of the
\* first of them.
Utf8Needed(b) ==
  IF b >= 194 /\ b <= 223 THEN 1
  ELSE IF b >= 224 /\ b <= 239 THEN 2
  ELSE IF b >= 240 /\ b <= 244 THEN 3
  ELSE 0

Utf8Lower(b) == IF b = 224 THEN 160 ELSE IF b = 240 THEN 144 ELSE 128

Utf8Upper(b) == IF b = 237 THEN 159 ELSE IF b = 244 THEN 143 ELSE 191

RECURSIVE DecodeFrom(_, _, _, _, _, _)
\* Percent-decoding of s and UTF-8 decoding of its bytes, after the decoded
\* text acc: needed continuation bytes are still to come, the next of them
\* within lower..upper, and outside tells that a character outside Printable
\* was decoded.  A control character is a forbidden domain code point; a byte
\* sequence that is not UTF-8 decodes to U+FFFD, which no domain may hold.
DecodeFrom(s, acc, needed, lower, upper, outside) ==
  IF s = "" THEN
    IF needed > 0 THEN Failure
    ELSE IF outside THEN Beyond
    ELSE Success(acc)
  ELSE IF ~IsEscape(s) THEN
    IF needed > 0 THEN Failure
    ELSE DecodeFrom(Tail(s), acc \o Head(s), 0, 128, 191, outside)
  ELSE IF needed > 0 THEN
    IF EscapeByte(s) < lower \/ EscapeByte(s) > upper THEN Failure
    ELSE DecodeFrom(SubSeq(s, 4, Len(s)), acc, needed - 1, 128, 191, TRUE)
  ELSE IF EscapeByte(s) >= 128 THEN
    IF Utf8Needed(EscapeByte(s)) = 0 THEN Failure
    ELSE DecodeFrom(SubSeq(s, 4, Len(s)), acc, Utf8Needed(EscapeByte(s)),
                    Utf8Lower(EscapeByte(s)), Utf8Upper(EscapeByte(s)), TRUE)
  ELSE IF EscapeByte(s) = 96 THEN
    DecodeFrom(SubSeq(s, 4, Len(s)), acc, 0, 128, 191, TRUE)
  ELSE IF EscapeByte(s) < 32 \/ EscapeByte(s) = 127 THEN Failure
  ELSE DecodeFrom(SubSeq(s, 4, Len(s)), acc \o CharOfCode(EscapeByte(s)),
                  0, 128, 191, outside)

\* Percent-decoding of a host: "%" with two hexadecimal digits is the byte of
\* that value, any other character stands for itself, and the bytes are
\* read as UTF-8.  The grave accent (byte 60) is a character a host may hold
\* and no string of the model can, so it counts as outside Printable.
PercentDecode(s) == DecodeFrom(s, "", 0, 128, 191, FALSE)

\* A part of an IPv4 address as a number up to 2^32 - 1, kept in two halves of
\* 16 bits; over is set when the number is larger.
Wide(hi, lo, over) == [hi |-> hi, lo |-> lo, over |-> over]

\* A number of two halves from a high half that may have outgrown 16 bits.
WideCap(high, lo, over) ==
  Wide(IF high >= 65536 THEN 0 ELSE high, lo, over \/ high >= 65536)

\* acc * radix + d, where low is acc.lo * radix + d.
WideCarry(acc, radix, low) ==
  WideCap(acc.hi * radix + (low \div 65536), low % 65536, acc.over)

RECURSIVE WideValue(_, _, _)
\* The digits of s in the radix, read left to right from acc.
WideValue(s, radix, acc) ==
  IF s = "" THEN acc
  ELSE WideValue(Tail(s), radix,
         WideCarry(acc, radix, acc.lo * radix + DigitValue(Head(s))))

\* No IPv4 number.
NoNumber == [ok |-> FALSE, value |-> Wide(0, 0, FALSE)]

\* The digits of an IPv4 number in their radix: a character that is no digit
\* of the radix fails, no digits at all are 0.
IPv4Digits(body, radix) ==
  IF ~AllRadixDigits(body, radix) THEN NoNumber
  ELSE [ok |-> TRUE, value |-> WideValue(body, radix, Wide(0, 0, FALSE))]

\* The IPv4 number parser: 0x or 0X selects radix 16, another leading 0
\* radix 8; the empty string fails.
ParseIPv4Number(part) ==
  IF part = "" THEN NoNumber
  ELSE IF Len(part) >= 2 /\ SubSeq(part, 1, 2) \in {"0x", "0X"}
    THEN IPv4Digits(SubSeq(part, 3, Len(part)), 16)
  ELSE IF Len(part) >= 2 /\ Head(part) = "0" THEN IPv4Digits(Tail(part), 8)
  ELSE IPv4Digits(part, 10)

\* parts without one empty last part.
DropEmptyLast(parts) ==
  IF Len(parts) > 1 /\ parts[Len(parts)] = ""
    THEN SubSeq(parts, 1, Len(parts) - 1)
    ELSE parts

\* The parts of a domain for the IPv4 tests: split at the dots, one empty
\* last part dropped.
IPv4Parts(domain) == DropEmptyLast(SplitOn(domain, "."))

\* The last part of a domain is a number: decimal digits only, or an IPv4
\* number.
IsNumberPart(last) ==
  \/ last # "" /\ AllRadixDigits(last, 10)
  \/ ParseIPv4Number(last).ok

\* The last of the parts.
LastPart(parts) == parts[Len(parts)]

\* The ends-in-a-number checker.
EndsInNumber(domain) == IsNumberPart(LastPart(IPv4Parts(domain)))

\* The number w is at most 255.
IsByte(w) == ~w.over /\ w.hi = 0 /\ w.lo <= 255

\* The last of n numbers fits the 5 - n bytes left to it.
Fits(w, n) ==
  /\ ~w.over
  /\ n = 2 => w.hi < 256
  /\ n = 3 => w.hi = 0
  /\ n = 4 => IsByte(w)

\* The four bytes of a number below 2^32.
WideBytes(w) == <<w.hi \div 256, w.hi % 256, w.lo \div 256, w.lo % 256>>

\* The four bytes of an address of n numbers: the first n - 1 numbers are its
\* first bytes, the last number fills the bytes that remain.
IPv4Bytes(numbers) ==
  [k \in 1..4 |-> IF k < Len(numbers) THEN numbers[k].lo
                  ELSE WideBytes(numbers[Len(numbers)])[k]]

\* The IPv4 serializer: four decimal bytes.
WriteIPv4(bytes) ==
  IntToString(bytes[1]) \o "." \o IntToString(bytes[2]) \o "."
    \o IntToString(bytes[3]) \o "." \o IntToString(bytes[4])

\* The end of the IPv4 parser: a number above 255 before the last and a last
\* number that does not fit the remaining bytes fail.
IPv4OfNumbers(numbers) ==
  IF \E k \in 1..(Len(numbers) - 1) : ~IsByte(numbers[k]) THEN Failure
  ELSE IF ~Fits(numbers[Len(numbers)], Len(numbers)) THEN Failure
  ELSE Success(WriteIPv4(IPv4Bytes(numbers)))

\* The IPv4 parser on the parts: more than four parts and a part that is no
\* number fail.
IPv4OfParts(parts) ==
  IF Len(parts) > 4 \/ (\E k \in 1..Len(parts) : ~ParseIPv4Number(parts[k]).ok) THEN Failure
  ELSE IPv4OfNumbers([k \in 1..Len(parts) |-> ParseIPv4Number(parts[k]).value])

\* The IPv4 parser and serializer.
ParseIPv4(domain) == IPv4OfParts(IPv4Parts(domain))

\* The eight 16-bit pieces of an IPv6 address, all zero.
ZeroPieces == [k \in 1..8 |-> 0]

\* No IPv6 address.
NoPieces == [ok |-> FALSE, pieces |-> ZeroPieces]

RECURSIVE HexRun(_, _)
\* The length of the leading run of hexadecimal digits of s, at most left.
HexRun(s, left) ==
  IF left = 0 \/ s = "" \/ ~IsRadixDigit(Head(s), 16) THEN 0
  ELSE 1 + HexRun(Tail(s), left - 1)

\* One decimal byte of an IPv4 address inside an IPv6 address: digits only,
\* no leading zero before another digit, at most 255.
IsIPv4Piece(part) ==
  /\ part # "" /\ Len(part) <= 3 /\ AllRadixDigits(part, 10)
  /\ Len(part) > 1 => Head(part) # "0"
  /\ DigitsValue(part, 10, 0) <= 255

\* The pieces with the moved last ones of the idx read at the end of the
\* address and zeros before them.
MovePieces(pieces, comp, moved) ==
  [k \in 1..8 |->
     IF k <= comp THEN pieces[k]
     ELSE IF k > 8 - moved THEN pieces[comp + k - (8 - moved)]
     ELSE 0]

\* The end of the IPv6 parser: the pieces read after "::" move to the end of
\* the address; without "::" all eight pieces must have been read.  idx is
\* the number of pieces read, comp the number of pieces before "::" (-1 when
\* there is none).
FinishIPv6(pieces, idx, comp) ==
  IF comp = -1 THEN
    IF idx = 8 THEN [ok |-> TRUE, pieces |-> pieces] ELSE NoPieces
  ELSE [ok |-> TRUE, pieces |-> MovePieces(pieces, comp, idx - comp)]

\* An IPv4 address at the end of an IPv6 address: four decimal bytes, which
\* fill two pieces.
EmbedIPv4(quad, pieces, idx, comp) ==
  IF Len(quad) # 4 \/ (\E k \in 1..Len(quad) : ~IsIPv4Piece(quad[k])) THEN NoPieces
  ELSE FinishIPv6(
         [pieces EXCEPT
            ![idx + 1] = 256 * DigitsValue(quad[1], 10, 0) + DigitsValue(quad[2], 10, 0),
            ![idx + 2] = 256 * DigitsValue(quad[3], 10, 0) + DigitsValue(quad[4], 10, 0)],
         idx + 2, comp)

RECURSIVE ReadIPv6(_, _, _, _)
RECURSIVE ReadPiece(_, _, _, _, _, _)
\* One piece of an IPv6 address: s starts with length hexadecimal digits and
\* goes on with rest.
ReadPiece(s, length, rest, pieces, idx, comp) ==
  IF rest # "" /\ Head(rest) = "." THEN
    IF length = 0 \/ idx > 6 THEN NoPieces
    ELSE EmbedIPv4(SplitOn(s, "."), pieces, idx, comp)
  ELSE IF rest # "" /\ Head(rest) = ":" THEN
    IF Tail(rest) = "" THEN NoPieces
    ELSE ReadIPv6(Tail(rest),
           [pieces EXCEPT ![idx + 1] = DigitsValue(SubSeq(s, 1, length), 16, 0)],
           idx + 1, comp)
  ELSE IF rest # "" THEN NoPieces
  ELSE ReadIPv6("",
         [pieces EXCEPT ![idx + 1] = DigitsValue(SubSeq(s, 1, length), 16, 0)],
         idx + 1, comp)

\* The main loop of the IPv6 parser on the rest s of the input.
ReadIPv6(s, pieces, idx, comp) ==
  IF s = "" THEN FinishIPv6(pieces, idx, comp)
  ELSE IF idx = 8 THEN NoPieces
  ELSE IF Head(s) = ":" THEN
    IF comp # -1 THEN NoPieces
    ELSE ReadIPv6(Tail(s), pieces, idx + 1, idx + 1)
  ELSE ReadPiece(s, HexRun(s, 4), SubSeq(s, HexRun(s, 4) + 1, Len(s)), pieces, idx, comp)

\* The IPv6 parser: a leading ":" must be the start of "::".
ParseIPv6Pieces(s) ==
  IF s # "" /\ Head(s) = ":" THEN
    IF ~StartsWith(s, "::") THEN NoPieces
    ELSE ReadIPv6(SubSeq(s, 3, Len(s)), ZeroPieces, 1, 1)
  ELSE ReadIPv6(s, ZeroPieces, 0, -1)

\* The lower-case hexadecimal digit of the value d.
HexDigit(d) == LowerChar(SubSeq(HexDigits, d + 1, d + 1))

RECURSIVE HexString(_)
\* n in lower-case hexadecimal digits without leading zeros.
HexString(n) ==
  IF n < 16 THEN HexDigit(n) ELSE HexString(n \div 16) \o HexDigit(n % 16)

RECURSIVE ZeroRun(_, _)
\* The length of the run of zero pieces that starts at piece k.
ZeroRun(pieces, k) ==
  IF k > 8 THEN 0 ELSE IF pieces[k] # 0 THEN 0 ELSE 1 + ZeroRun(pieces, k + 1)

\* The least number of a set of numbers, 0 for the empty set.
FirstOf(set) == IF set = {} THEN 0 ELSE CHOOSE k \in set : \A j \in set : k <= j

\* The first longest run of two or more zero pieces: its first piece, or 0.
CompressAt(pieces) ==
  FirstOf({ k \in 1..8 : ZeroRun(pieces, k) >= 2
                          /\ \A j \in 1..8 : ZeroRun(pieces, j) <= ZeroRun(pieces, k) })

RECURSIVE WriteIPv6(_, _, _)
\* The IPv6 serializer from piece k on; c is the start of the compressed run.
WriteIPv6(pieces, k, c) ==
  IF k > 8 THEN ""
  ELSE IF k = c THEN
    (IF k = 1 THEN "::" ELSE ":") \o WriteIPv6(pieces, k + ZeroRun(pieces, k), c)
  ELSE HexString(pieces[k]) \o (IF k # 8 THEN ":" ELSE "") \o WriteIPv6(pieces, k + 1, c)

\* The host of the parsed pieces, in brackets.
HostOfPieces(parsed) ==
  IF ~parsed.ok THEN Failure
  ELSE Success("[" \o WriteIPv6(parsed.pieces, 1, CompressAt(parsed.pieces)) \o "]")

\* The host of an address in brackets.
ParseIPv6(s) == HostOfPieces(ParseIPv6Pieces(s))

RECURSIVE EncodeControls(_)
\* The C0 control percent-encode set on the characters a host can still hold.
EncodeControls(s) ==
  IF s = "" THEN ""
  ELSE (IF Head(s) = "\f" THEN PercentByte(12) ELSE Head(s)) \o EncodeControls(Tail(s))

RECURSIVE HasPunycodeLabel(_)
\* Some label of the domain starts with "xn--".
HasPunycodeLabel(domain) ==
  IF domain = "" THEN FALSE
  ELSE IF StartsWith(domain, "xn--") THEN TRUE
  ELSE HasPunycodeLabel(DropThrough(domain, {"."}))

\* The end of the host parser for a special scheme, on a domain of ASCII.
\* A label that starts with "xn--" is valid or not by the characters it
\* encodes, and domain-to-ASCII runs before every other test.  Without such
\* a label the domain must be non-empty and free of forbidden code points,
\* and is an IPv4 address when it ends in a number.
CheckDomain(domain) ==
  IF domain = "" THEN Failure
  ELSE IF HasPunycodeLabel(domain) THEN Beyond
  ELSE IF HasCharOf(domain, ForbiddenDomain) THEN Failure
  ELSE IF EndsInNumber(domain) THEN ParseIPv4(domain)
  ELSE Success(domain)

\* The decoded host of a special scheme is lower-cased.  With a character
\* outside Printable in it, domain-to-ASCII maps and composes characters
\* before any test: "<" with a following U+0338 is one character that is not
\* forbidden, so nothing about such a host is decided here.
DomainOf(decoded) ==
  IF decoded.beyond THEN Beyond
  ELSE IF ~decoded.ok THEN Failure
  ELSE CheckDomain(ToLower(decoded.text))

\* The host parser.  An address in brackets is an IPv6 address; the host of a
\* scheme that is not special is kept as it is, without forbidden code
\* points; the host of a special scheme is percent-decoded first.
ParseHost(input, isOpaque) ==
  IF StartsWith(input, "[") THEN
    IF ~EndsWith(input, "]") THEN Failure
    ELSE ParseIPv6(SubSeq(input, 2, Len(input) - 1))
  ELSE IF isOpaque THEN
    IF HasCharOf(input, ForbiddenHost) THEN Failure ELSE Success(EncodeControls(input))
  ELSE DomainOf(PercentDecode(input))

\* The characters that end the authority of a URL.
HostEnd(special) == IF special THEN {"/", "?", "#", "\\"} ELSE {"/", "?", "#"}

\* The authority of s: the characters before the first one that ends it.
TakeHost(s, special) == TakeUntil(s, HostEnd(special))

RECURSIVE PortColon(_, _, _)
\* The position of the first ":" of s outside brackets, 0 when there is none;
\* k is the position of the head of s.
PortColon(s, k, inside) ==
  IF s = "" THEN 0
  ELSE IF Head(s) = ":" /\ ~inside THEN k
  ELSE PortColon(Tail(s), k + 1,
         IF Head(s) = "[" THEN TRUE ELSE IF Head(s) = "]" THEN FALSE ELSE inside)

\* The port state: digits only, and a value of at most 65535; no digits at all
\* is no port.
IsPort(p) ==
  /\ AllRadixDigits(p, 10)
  /\ Len(SkipWhile(p, {"0"})) <= 5
  /\ DigitsValue(SkipWhile(p, {"0"}), 10, 0) <= 65535

\* The host and port states on a host and what follows its ":".
HostWithPort(name, port, special) ==
  IF name = "" \/ ~IsPort(port) THEN Failure ELSE ParseHost(name, ~special)

\* The host and port states: the first ":" outside brackets, at colon, ends
\* the host; a special scheme has no empty host.
SplitHostPort(hostport, colon, special) ==
  IF colon > 0
    THEN HostWithPort(SubSeq(hostport, 1, colon - 1),
                      SubSeq(hostport, colon + 1, Len(hostport)), special)
  ELSE IF hostport = "" /\ special THEN Failure
  ELSE ParseHost(hostport, ~special)

\* The host and port states on the text after the credentials.
ParseHostAndPort(hostport, special) ==
  SplitHostPort(hostport, PortColon(hostport, 1, FALSE), special)

\* The authority state: what precedes the last "@", at position at, is the
\* credentials, and credentials without a host fail.
AfterCredentials(authority, at, special) ==
  IF at > 0 /\ at = Len(authority) THEN Failure
  ELSE ParseHostAndPort(SubSeq(authority, at + 1, Len(authority)), special)

\* The authority state on the text after the slashes.
ParseAuthority(s, special) ==
  AfterCredentials(TakeHost(s, special), LastIndexOf("@", TakeHost(s, special)), special)

\* A Windows drive letter: a letter followed by ":" or "|".
IsDriveLetter(s) ==
  Len(s) = 2 /\ IsAlpha(Head(s)) /\ SubSeq(s, 2, 2) \in {":", "|"}

\* The host of a file URL: localhost is the empty host.
FileHostOf(host) ==
  IF host.ok /\ host.text = "localhost" THEN Success("") ELSE host

\* The file host state: a drive letter in the place of the host is the start
\* of the path.
FileHost(name) ==
  IF name = "" \/ IsDriveLetter(name) THEN Success("")
  ELSE FileHostOf(ParseHost(name, FALSE))

\* The file states: a host is read after two slashes only.
ParseFile(rest) ==
  IF Len(rest) >= 2 /\ Head(rest) \in {"/", "\\"} /\ SubSeq(rest, 2, 2) \in {"/", "\\"}
    THEN FileHost(TakeUntil(SubSeq(rest, 3, Len(rest)), {"/", "\\", "?", "#"}))
    ELSE Success("")

\* The states after the scheme.  A special scheme reads its authority after
\* any run of slashes and backslashes; another scheme has an authority only
\* after "//", and no host otherwise.
AfterSchemeState(scheme, rest) ==
  IF scheme = "file" THEN ParseFile(rest)
  ELSE IF scheme \in SpecialSchemes THEN ParseAuthority(SkipWhile(rest, {"/", "\\"}), TRUE)
  ELSE IF StartsWith(rest, "//") THEN ParseAuthority(SubSeq(rest, 3, Len(rest)), FALSE)
  ELSE Success("")

\* The parser on the cleaned input: without a scheme the parse fails, as
\* there is no base.
ParseCleaned(s) ==
  IF ~HasScheme(s) THEN Failure ELSE AfterSchemeState(Scheme(s), AfterScheme(s))

\* new URL(u), as far as the host is concerned.
ParseURL(u) == ParseCleaned(Cleaned(u))

\* What new URL(url) does is beyond the model: it may throw, and it may
\* return with a hostname the model cannot name.
IsBeyond(u) == ParseURL(u).beyond

\* new URL(url) returns and does not throw; asked of a URL that is not
\* IsBeyond.
ParsesAsURL(u) == ParseURL(u).ok

\* new URL(url).hostname; asked of a URL that is not IsBeyond.
Hostname(u) == ParseURL(u).text

\* HostMatches with the dot boundary forgotten.
HostMatches_NoDot(hostname, domain) ==
  hostname = domain \/ EndsWith(hostname, domain)

\* urlObj.hostname === domain || urlObj.hostname.endsWith('.' + domain)
HostMatches(hostname, domain) ==
  hostname = domain \/ EndsWith(hostname, "." \o domain)

\* allowedDomains.some(domain => ...)
IsAllowedHost(hostname) ==
  \E d \in 1..Len(allowedDomains) : HostMatches(hostname, allowedDomains[d])

\* ------------------------------------------------------------------ inputs

Https == "https://"

SubPrefix == "sub."

EvilPrefix == "evil"

AttackerSuffix == ".attacker.net"

NotGithub == "notgithub.com"

GithubCom == "github.com"

PathX == "/x"

PathSpoof == "/evil?x=api.github.com"

\* Hostnames a caller asks for: the listed ones, true subdomains, names that
\* only contain a listed one, and unrelated ones.
Hosts ==
  { RawHost, ApiHost, SubPrefix \o ApiHost, SubPrefix \o RawHost,
    EvilPrefix \o ApiHost, EvilPrefix \o RawHost \o AttackerSuffix,
    ApiHost \o AttackerSuffix, NotGithub, GithubCom }

Paths == { PathX, PathSpoof }

\* URLs in other spellings: the scheme and the host in upper case, another
\* scheme, a port, credentials, a backslash or no slash after the scheme, an
\* escaped dot in the host, an address for a host, and a query with
\* characters encodeURIComponent escapes.
VariantURLs ==
  { "HTTPS://API.GitHub.com/x",
    "http://raw.githubusercontent.com/x",
    "https://api.github.com:8443/x",
    "https://user:pw@api.github.com/x",
    "https://api.github.com@evil.net/x",
    "https://api.github.com\\@evil.net/x",
    "https:sub.api%2Egithub.com/search?q=a+b c",
    "https://0x7f.1/api.github.com",
    "ftp://evil.net:21/.api.github.com" }

\* Strings new URL rejects: no scheme, no host, a port that is no number, an
\* escape in the host that is cut-off UTF-8.
BadURLs ==
  { ApiHost \o PathX, NotGithub \o PathX, "https://", "https://api.github.com:x/",
    "https://%C3.api.github.com/x" }

\* URLs whose host is decided by the tables of Unicode: a label that starts
\* with "xn--", an escaped character outside ASCII, an escaped grave accent,
\* a forbidden code point that composes with the character after it.
BeyondURLs ==
  { "https://xn--a.api.github.com/x",
    "https://%EF%BD%81pi.github.com/x",
    "https://a%60b.com/x",
    "https://x<%CC%B8.api.github.com/x" }

\* What a caller hands to fetchWithCORS.
URLs ==
  { Https \o h \o p : h \in Hosts, p \in Paths }
    \cup VariantURLs \cup BadURLs \cup BeyondURLs

\* fetchWithRetry does not look at its URL: two of them are enough.
RetryURLs == { Https \o ApiHost \o PathX, Https \o NotGithub \o PathSpoof }

\* Date.now() when the page starts its calls, in ms.
Epochs == {0, 500}

\* An outcome of one fetch: the transport throws, or it answers with a status
\* and the two rate-limit headers (Null when a header is not set).
Throw == [throw |-> TRUE, status |-> 0, remaining |-> Null, reset |-> Null]

Resp(status, remaining, reset) ==
  [throw |-> FALSE, status |-> status, remaining |-> remaining, reset |-> reset]

BasicOutcomes == { Throw, Resp(200, Null, Null), Resp(500, Null, Null) }

\* X-RateLimit-Reset values, in seconds: not set, already past, 5 s, 60 s
\* and 120 s after time 0, and values with a sign, a radix prefix, leading
\* white space and text after the digits.
ResetHeaders == { Null, "0", "5", "60", "120", "0x10", "-5", "+5", " 30s", "soon" }

Outcomes ==
  BasicOutcomes
    \cup { Resp(403, Null, Null), Resp(403, "1", "5"),
           Resp(200, "0", "5"), Resp(500, "0", "5") }
    \cup { Resp(403, "0", r) : r \in ResetHeaders }

\* response.ok: the status is in 200..299.
Ok(o) == o.status >= 200 /\ o.status <= 299

\* ------------------------------------------------------------------- state

\* The invocations of the two entry points.
Calls == {"c1", "c2"}

VARIABLES
  now,        \* Date.now(), ms
  pc,         \* per call: "idle", "inflight" (awaiting fetch), "timer" (awaiting setTimeout), "done"
  kind,       \* per call: "none", "retry" (fetchWithRetry), "cors" (fetchWithCORS)
  url,        \* per call: the url argument
  maxRetries, \* per call: the maxRetries argument
  i,          \* per call: the loop variable i of fetchWithRetry
  path,       \* per call: fetchWithCORS position, 0 the direct request, p the p-th proxy
  lastError,  \* per call: the variable lastError of fetchWithCORS
  wake,       \* per call: when the pending timer is due
  reqs,       \* per call: the URLs handed to fetch so far, in order
  outs,       \* per call: the outcome of each settled fetch and the time it settled
  waits,      \* per call: the timers set so far, in order
  result      \* per call: how the call settled

vars == <<now, pc, kind, url, maxRetries, i, path, lastError, wake, reqs, outs, waits, result>>

Pending == [type |-> "pending"]

\* The value of a function that ends without a return statement, and of an
\* unassigned let variable.
Undefined == [type |-> "undefined"]

\* The call resolved with the response of its k-th request.
Returned(k, o) == [type |-> "response", req |-> k, resp |-> o]

\* The call rejected.  req is the request the error comes from (0: none).
Failed(name, k, info) == [type |-> "error", name |-> name, req |-> k, info |-> info]

Init ==
  /\ now \in Epochs
  /\ pc = [c \in Calls |-> "idle"]
  /\ kind = [c \in Calls |-> "none"]
  /\ url = [c \in Calls |-> ""]
  /\ maxRetries = [c \in Calls |-> 0]
  /\ i = [c \in Calls |-> 0]
  /\ path = [c \in Calls |-> 0]
  /\ lastError = [c \in Calls |-> Undefined]
  /\ wake = [c \in Calls |-> 0]
  /\ reqs = [c \in Calls |-> <<>>]
  /\ outs = [c \in Calls |-> <<>>]
  /\ waits = [c \in Calls |-> <<>>]
  /\ result = [c \in Calls |-> Pending]

\* ---------------------------------------------------------- fetchWithRetry

\* IsRateLimited without the test of the status.
IsRateLimited_AnyStatus(o) == o.remaining = "0"

\* response.status === 403 && rateLimitRemaining === '0'
IsRateLimited(o) == o.status = 403 /\ o.remaining = "0"

\* parseInt(response.headers.get('X-RateLimit-Reset')) * 1000
ResetTime(o) == Times(ParseInt(o.reset), Num(1000))

\* resetTime - Date.now(); arithmetic on NaN gives NaN
WaitTime(o, t) == Minus(ResetTime(o), Num(t))

\* The time in the message of the rate-limit error, new Date(resetTime): the
\* reset time, or -1 for the invalid date of NaN (no reset time is -1, they
\* are multiples of 1000).
ResetDate(o) == IF ResetTime(o).nan THEN -1 ELSE ResetTime(o).n

\* waitTime > 0 && waitTime < 60000: a comparison with NaN is false.
InWindow(o, t) ==
  /\ ~WaitTime(o, t).nan
  /\ WaitTime(o, t).n > 0
  /\ WaitTime(o, t).n < 60000

\* IsRetryableStatus without the test for the last attempt.
IsRetryableStatus_Always(o, idx, n) == ~Ok(o)

\* !response.ok && i < maxRetries - 1
IsRetryableStatus(o, idx, n) == ~Ok(o) /\ idx < n - 1

\* IsLastAttempt off by one.
IsLastAttempt_OffByOne(idx, n) == idx = n

\* i === maxRetries - 1 in the catch block
IsLastAttempt(idx, n) == idx = n - 1

\* Backoff with the exponent off by one.
Backoff_FromTwo(idx) == Min(1000 * 2^(idx + 1), 10000)

\* Backoff with Math.max in the place of Math.min.
Backoff_Max(idx) == Max(1000 * 2^idx, 10000)

\* Backoff without the cap.
Backoff_NoCap(idx) == 1000 * 2^idx

\* Math.min(1000 * Math.pow(2, i), 10000)
Backoff(idx) == Min(1000 * 2^idx, 10000)

\* What the loop body does with the outcome o of attempt idx at time t: the
\* error the try block throws, if any, then what the catch block does with it.
Thrown(o, k, idx, n, t) ==
  IF o.throw THEN Failed("TransportFailure", k, 0)
  ELSE IF IsRateLimited(o) /\ ~InWindow(o, t) THEN Failed("RateLimited", k, ResetDate(o))
  ELSE IF ~IsRateLimited(o) /\ IsRetryableStatus(o, idx, n) THEN Failed("HTTP", k, o.status)
  ELSE Undefined

\* for (let i = 0; i < maxRetries; i++): the index the loop goes on with after
\* a timer, when the body ended by continue or by leaving the catch block.
NextIndex(idx) == idx + 1

\* LoopContinues with the bound included.
LoopContinues_Inclusive(idx, n) == idx <= n

\* i < maxRetries, the test of the for loop
LoopContinues(idx, n) == idx < n

\* The transports a call can meet.
OutcomesFor(c) ==
  IF kind[c] = "retry" /\ maxRetries[c] <= FullDepth THEN Outcomes ELSE BasicOutcomes

\* fetchWithRetry(u, options, n) is called: the loop is entered and the first
\* fetch is issued, or with n = 0 the function ends at once.
CallFetchWithRetry(c, u, n) ==
  /\ pc[c] = "idle"
  /\ kind' = [kind EXCEPT ![c] = "retry"]
  /\ url' = [url EXCEPT ![c] = u]
  /\ maxRetries' = [maxRetries EXCEPT ![c] = n]
  /\ i' = [i EXCEPT ![c] = 0]
  /\ IF LoopContinues(0, n)
       THEN /\ reqs' = [reqs EXCEPT ![c] = <<u>>]
            /\ pc' = [pc EXCEPT ![c] = "inflight"]
            /\ result' = result
       ELSE /\ reqs' = reqs
            /\ pc' = [pc EXCEPT ![c] = "done"]
            /\ result' = [result EXCEPT ![c] = Undefined]
  /\ UNCHANGED <<now, path, lastError, wake, outs, waits>>

\* The awaited fetch of a fetchWithRetry call settles with outcome o and the
\* call runs to its next suspension point or to its end.
SettleRetry(c, o) ==
  /\ pc[c] = "inflight" /\ kind[c] = "retry"
  /\ o \in OutcomesFor(c)
  /\ outs' = [outs EXCEPT ![c] = Append(@, [o |-> o, at |-> now])]
  /\ LET k == Len(reqs[c])
         idx == i[c]
         n == maxRetries[c]
         err == Thrown(o, k, idx, n, now)
     IN IF ~o.throw /\ IsRateLimited(o) /\ InWindow(o, now)
          THEN \* await the rate-limit timer, then continue
               /\ pc' = [pc EXCEPT ![c] = "timer"]
               /\ wake' = [wake EXCEPT ![c] = now + WaitTime(o, now).n]
               /\ waits' = [waits EXCEPT ![c] =
                    Append(@, [kind |-> "ratelimit", ms |-> WaitTime(o, now).n, after |-> k])]
               /\ result' = result
        ELSE IF err = Undefined
          THEN \* return response
               /\ pc' = [pc EXCEPT ![c] = "done"]
               /\ result' = [result EXCEPT ![c] = Returned(k, o)]
               /\ UNCHANGED <<wake, waits>>
        ELSE IF IsLastAttempt(idx, n)
          THEN \* throw error
               /\ pc' = [pc EXCEPT ![c] = "done"]
               /\ result' = [result EXCEPT ![c] = err]
               /\ UNCHANGED <<wake, waits>>
          ELSE \* await the backoff timer
               /\ pc' = [pc EXCEPT ![c] = "timer"]
               /\ wake' = [wake EXCEPT ![c] = now + Backoff(idx)]
               /\ waits' = [waits EXCEPT ![c] =
                    Append(@, [kind |-> "backoff", ms |-> Backoff(idx), after |-> k])]
               /\ result' = result
  /\ UNCHANGED <<now, kind, url, maxRetries, i, path, lastError, reqs>>

\* The awaited timer of a call fires, no earlier than it is due and after
\* every timer due before it: i++, then the loop test, then the next fetch,
\* or the end of the function when the loop is over.
TimerFires(c) ==
  /\ pc[c] = "timer"
  /\ \A d \in Calls : pc[d] = "timer" => wake[c] <= wake[d]
  /\ now' = Max(now, wake[c])
  /\ i' = [i EXCEPT ![c] = NextIndex(@)]
  /\ IF LoopContinues(NextIndex(i[c]), maxRetries[c])
       THEN /\ reqs' = [reqs EXCEPT ![c] = Append(@, url[c])]
            /\ pc' = [pc EXCEPT ![c] = "inflight"]
            /\ result' = result
       ELSE /\ reqs' = reqs
            /\ pc' = [pc EXCEPT ![c] = "done"]
            /\ result' = [result EXCEPT ![c] = Undefined]
  /\ UNCHANGED <<kind, url, maxRetries, path, lastError, wake, outs, waits>>

\* ----------------------------------------------------------- fetchWithCORS

\* PassesGuard with the guard left out.
PassesGuard_Always(u) == TRUE

\* The guard of lines 130-133 lets the call through; asked of a URL that
\* parses.
PassesGuard(u) == IsAllowedHost(Hostname(u))

\* What lines 130-133 can do with u: new URL(u) throws a TypeError, or the
\* guard throws, or the call goes on to the direct fetch.  For a URL that is
\* IsBeyond each of the three can be what the program does.
Verdicts(u) ==
  IF IsBeyond(u) THEN {"TypeError", "DisallowedOrigin", "fetch"}
  ELSE IF ~ParsesAsURL(u) THEN {"TypeError"}
  ELSE IF ~PassesGuard(u) THEN {"DisallowedOrigin"}
  ELSE {"fetch"}

\* if (response.ok) return response, after the direct fetch and after a proxy
\* fetch alike.
ReturnsResponse(o) == ~o.throw /\ Ok(o)

\* RecordError with lastError declared outside the function: one variable for
\* every call, so a call that recorded nothing sees what another call recorded.
RecordError_Shared(prev, o, k, p) ==
  IF o.throw /\ p > 0
    THEN [type |-> "error", name |-> "TransportFailure", req |-> k, info |-> 0]
  ELSE IF \E d \in DOMAIN lastError : lastError[d] # [type |-> "undefined"]
    THEN lastError[CHOOSE d \in DOMAIN lastError : lastError[d] # [type |-> "undefined"]]
    ELSE prev

\* What the catch block of the proxy loop leaves in lastError when the fetch
\* of request k settled with o; the catch block of the direct fetch only logs.
RecordError(prev, o, k, p) ==
  IF o.throw /\ p > 0 THEN Failed("TransportFailure", k, 0) ELSE prev

\* ProxyRequest that reads the first template at every turn of the loop.
ProxyRequest_SameProxy(p, u) == proxies[1] \o encodeURIComponent(u)

\* fetch(proxy + encodeURIComponent(url)) for the p-th proxy
ProxyRequest(p, u) == proxies[p] \o encodeURIComponent(u)

\* throw lastError || new Error('All CORS proxies failed')
FinalError(last) ==
  IF last = Undefined THEN Failed("AllProxiesFailed", 0, 0) ELSE last

\* CallFetchWithCORS with the awaits of the fetches forgotten: each response is
\* a promise whose ok is undefined, so the direct request and every proxy
\* request are issued at once and the call throws the generic error.
CallFetchWithCORS_NoAwait(c, u) ==
  /\ pc[c] = "idle"
  /\ kind' = [kind EXCEPT ![c] = "cors"]
  /\ url' = [url EXCEPT ![c] = u]
  /\ path' = [path EXCEPT ![c] = Len(proxies)]
  /\ lastError' = [lastError EXCEPT ![c] = Undefined]
  /\ pc' = [pc EXCEPT ![c] = "done"]
  /\ \E v \in Verdicts(u) :
       IF v = "TypeError"
         THEN /\ result' = [result EXCEPT ![c] = Failed("TypeError", 0, 0)]
              /\ reqs' = reqs
       ELSE IF v = "DisallowedOrigin"
         THEN /\ result' = [result EXCEPT ![c] = Failed("DisallowedOrigin", 0, 0)]
              /\ reqs' = reqs
         ELSE /\ result' = [result EXCEPT ![c] = Failed("AllProxiesFailed", 0, 0)]
              /\ reqs' = [reqs EXCEPT ![c] =
                   <<u>> \o [p \in 1..Len(proxies) |-> proxies[p] \o encodeURIComponent(u)]]
  /\ UNCHANGED <<now, maxRetries, i, wake, outs, waits>>

\* fetchWithCORS(u) is called: new URL(u) throws a TypeError, or the guard
\* throws, or the direct fetch is issued.
CallFetchWithCORS(c, u) ==
  /\ pc[c] = "idle"
  /\ kind' = [kind EXCEPT ![c] = "cors"]
  /\ url' = [url EXCEPT ![c] = u]
  /\ path' = [path EXCEPT ![c] = 0]
  /\ lastError' = [lastError EXCEPT ![c] = Undefined]
  /\ \E v \in Verdicts(u) :
       IF v = "TypeError"
         THEN /\ pc' = [pc EXCEPT ![c] = "done"]
              /\ result' = [result EXCEPT ![c] = Failed("TypeError", 0, 0)]
              /\ reqs' = reqs
       ELSE IF v = "DisallowedOrigin"
         THEN /\ pc' = [pc EXCEPT ![c] = "done"]
              /\ result' = [result EXCEPT ![c] = Failed("DisallowedOrigin", 0, 0)]
              /\ reqs' = reqs
         ELSE /\ pc' = [pc EXCEPT ![c] = "inflight"]
              /\ result' = result
              /\ reqs' = [reqs EXCEPT ![c] = <<u>>]
  /\ UNCHANGED <<now, maxRetries, i, wake, outs, waits>>

\* The awaited fetch of a fetchWithCORS call settles with outcome o: the call
\* returns the response, or goes on to the next proxy, or throws after the
\* last one.
SettleCORS(c, o) ==
  /\ pc[c] = "inflight" /\ kind[c] = "cors"
  /\ o \in OutcomesFor(c)
  /\ outs' = [outs EXCEPT ![c] = Append(@, [o |-> o, at |-> now])]
  /\ LET k == Len(reqs[c])
         p == path[c]
         last == RecordError(lastError[c], o, k, p)
     IN /\ lastError' = [lastError EXCEPT ![c] = last]
        /\ IF ReturnsResponse(o)
             THEN /\ pc' = [pc EXCEPT ![c] = "done"]
                  /\ result' = [result EXCEPT ![c] = Returned(k, o)]
                  /\ UNCHANGED <<path, reqs>>
           ELSE IF p < Len(proxies)
             THEN /\ path' = [path EXCEPT ![c] = p + 1]
                  /\ reqs' = [reqs EXCEPT ![c] = Append(@, ProxyRequest(p + 1, url[c]))]
                  /\ UNCHANGED <<pc, result>>
             ELSE /\ pc' = [pc EXCEPT ![c] = "done"]
                  /\ result' = [result EXCEPT ![c] = FinalError(last)]
                  /\ UNCHANGED <<path, reqs>>
  /\ UNCHANGED <<now, kind, url, maxRetries, i, wake, waits>>

\* ------------------------------------------------------------ specification

\* One call of either entry point runs alone.
Solo == {"c1"}

Next ==
  \E c \in Solo :
    \/ \E u \in RetryURLs, n \in 0..MaxRetriesBound : CallFetchWithRetry(c, u, n)
    \/ \E o \in Outcomes : SettleRetry(c, o)
    \/ TimerFires(c)
    \/ \E u \in URLs : CallFetchWithCORS(c, u)
    \/ \E o \in Outcomes : SettleCORS(c, o)

Spec == Init /\ [][Next]_vars

\* The same call, with what the runtime guarantees: a timer that is due fires,
\* and a fetch that was issued settles, with a response or with an exception.
SpecLive ==
  /\ Init /\ [][Next]_vars
  /\ \A c \in Solo :
       /\ WF_vars(TimerFires(c))
       /\ WF_vars(\E o \in Outcomes : SettleRetry(c, o))
       /\ WF_vars(\E o \in Outcomes : SettleCORS(c, o))

\* Largest maxRetries of the calls that run interleaved.
ConcMaxRetries == 2

\* What the transport answers to interleaved calls: a throw, a 200, a 500, and
\* the rate-limit signal with a reset 5 s after time 0.
ConcOutcomes == BasicOutcomes \cup { Resp(403, "0", "5") }

ConcURLs == { Https \o ApiHost \o PathX, Https \o NotGithub \o PathX }

\* Every call is started at some point and the calls take their steps in any
\* order: each await is a point where another call can run.
NextConc ==
  \E c \in Calls :
    \/ \E n \in 1..ConcMaxRetries : CallFetchWithRetry(c, Https \o ApiHost \o PathX, n)
    \/ \E o \in ConcOutcomes : SettleRetry(c, o)
    \/ TimerFires(c)
    \/ \E u \in ConcURLs : CallFetchWithCORS(c, u)
    \/ \E o \in ConcOutcomes : SettleCORS(c, o)

SpecConc == Init /\ [][NextConc]_vars

\* ------------------------------------------------- vocabulary of the claims

RetryCalls == { c \in Calls : kind[c] = "retry" }

CORSCalls == { c \in Calls : kind[c] = "cors" }

\* The outcome of the k-th request of call c.
Out(c, k) == outs[c][k].o

\* Every request of c settled so far threw.
AllThrew(c) == \A k \in 1..Len(outs[c]) : Out(c, k).throw

\* A response that is not ok and is not the rate-limit signal.
PlainFailure(o) ==
  /\ ~o.throw
  /\ ~(o.status \in 200..299)
  /\ ~(o.status = 403 /\ o.remaining = "0")

RECURSIVE SumMs(_)
\* The total of the delays of a sequence of timers.
SumMs(ws) == IF ws = <<>> THEN 0 ELSE Head(ws).ms + SumMs(Tail(ws))

RECURSIVE BackoffSum(_)
\* The sum over j in 0..k-1 of min(1000 * 2^j, 10000).
BackoffSum(k) ==
  IF k = 0 THEN 0
  ELSE BackoffSum(k - 1) + (IF 1000 * 2^(k - 1) < 10000 THEN 1000 * 2^(k - 1) ELSE 10000)

\* C1: when every request of a fetchWithRetry call with maxRetries n >= 1
\* throws, the call never issues more than n requests, and once the n-th has
\* thrown the call has failed with the error of that n-th request, having set
\* no timer after it; it does not end before.
C1_AllThrowFailsAfterN ==
  \A c \in RetryCalls :
    (maxRetries[c] >= 1 /\ AllThrew(c)) =>
      /\ Len(reqs[c]) <= maxRetries[c]
      /\ pc[c] = "done" => Len(outs[c]) = maxRetries[c]
      /\ Len(outs[c]) = maxRetries[c] =>
           /\ pc[c] = "done"
           /\ Len(reqs[c]) = maxRetries[c]
           /\ result[c] = Failed("TransportFailure", maxRetries[c], 0)
           /\ Len(waits[c]) = maxRetries[c] - 1
           /\ \A w \in 1..Len(waits[c]) : waits[c][w].after < maxRetries[c]

\* fetchWithRetry(url, {}, 3) has failed after three throwing requests.
C1_Witness ==
  \E c \in RetryCalls :
    /\ maxRetries[c] = 3 /\ AllThrew(c) /\ Len(outs[c]) = 3
    /\ pc[c] = "done" /\ result[c].type = "error"

\* C2: when the first k requests of a fetchWithRetry call throw and request
\* k+1 answers ok, the call has returned that response after exactly k+1
\* requests, and the delays it waited are the k backoff delays
\* min(1000 * 2^j, 10000), j = 0..k-1, none of them after the last request.
C2_SuccessAfterKThrows ==
  \A c \in RetryCalls :
    \A k \in 0..(Len(outs[c]) - 1) :
      ( /\ \A j \in 1..k : Out(c, j).throw
        /\ ~Out(c, k + 1).throw
        /\ Out(c, k + 1).status \in 200..299 ) =>
        /\ k < maxRetries[c]
        /\ pc[c] = "done"
        /\ result[c] = Returned(k + 1, Out(c, k + 1))
        /\ Len(reqs[c]) = k + 1
        /\ Len(waits[c]) = k
        /\ SumMs(waits[c]) = BackoffSum(k)
        /\ k = 2 => SumMs(waits[c]) = 3000
        /\ \A w \in 1..k : waits[c][w].kind = "backoff" /\ waits[c][w].after = w

\* Two throws, then an ok response on the third request of a call with
\* maxRetries 3: 3000 ms waited.
C2_Witness ==
  \E c \in RetryCalls :
    /\ maxRetries[c] = 3 /\ Len(outs[c]) = 3
    /\ Out(c, 1).throw /\ Out(c, 2).throw
    /\ ~Out(c, 3).throw /\ Out(c, 3).status = 200
    /\ result[c].type = "response" /\ SumMs(waits[c]) = 3000

\* The rate-limit timers among the first w timers of c.
RateWaitsBefore(c, w) ==
  Cardinality({ x \in 1..w : waits[c][x].kind = "ratelimit" })

\* C3: a rate-limit wait does not advance the attempt index: whenever a request
\* of a fetchWithRetry call is in flight, i is the number of earlier requests
\* that were not followed by a rate-limit wait, and a rate-limit wait is
\* followed by a retry, not by the end of the call.
C3_RateLimitWaitKeepsIndex ==
  \A c \in RetryCalls :
    /\ pc[c] = "inflight" =>
         i[c] = Len(reqs[c]) - 1 - RateWaitsBefore(c, Len(waits[c]))
    /\ (pc[c] = "done" /\ waits[c] # <<>>) =>
         ~( /\ waits[c][Len(waits[c])].kind = "ratelimit"
            /\ waits[c][Len(waits[c])].after = Len(reqs[c]) )

\* The k-th response of c is the rate-limit signal with a wait outside
\* 0 < waitTime < 60000 at the time it arrived (a reset header that is no
\* number gives no wait inside the window).
RateLimitedOutOfWindow(c, k) ==
  LET o == Out(c, k)
      t == outs[c][k].at
  IN /\ ~o.throw /\ o.status = 403 /\ o.remaining = "0"
     /\ \/ ParseInt(o.reset).nan
        \/ ~( ParseInt(o.reset).n * 1000 - t > 0 /\ ParseInt(o.reset).n * 1000 - t < 60000 )

\* C4: a rate-limit response whose wait is outside the window ends the call at
\* once, at whatever attempt index: the call has failed with the rate-limit
\* error of that request, no timer was set after it and no later request was
\* issued.
C4_OutOfWindowFailsAtOnce ==
  \A c \in RetryCalls :
    \A k \in 1..Len(outs[c]) :
      RateLimitedOutOfWindow(c, k) =>
        /\ pc[c] = "done"
        /\ result[c].type = "error" /\ result[c].name = "RateLimited" /\ result[c].req = k
        /\ Len(reqs[c]) = k
        /\ \A w \in 1..Len(waits[c]) : waits[c][w].after < k

\* C5: when every request of a fetchWithRetry call with maxRetries n answers
\* with a non-ok response that is not the rate-limit signal, each of the first
\* n-1 responses is followed by the backoff delay of its attempt and a new
\* request, and the n-th response is what the call returns, after n requests.
C5_LastNonOkResponseReturned ==
  \A c \in RetryCalls :
    (maxRetries[c] >= 1 /\ \A k \in 1..Len(outs[c]) : PlainFailure(Out(c, k))) =>
      /\ Len(reqs[c]) <= maxRetries[c]
      /\ \A k \in 1..Len(outs[c]) :
           k < maxRetries[c] =>
             /\ Len(waits[c]) >= k
             /\ waits[c][k] = [kind |-> "backoff", ms |-> BackoffSum(k) - BackoffSum(k - 1), after |-> k]
      /\ pc[c] = "done" => Len(outs[c]) = maxRetries[c]
      /\ Len(outs[c]) = maxRetries[c] =>
           /\ pc[c] = "done"
           /\ result[c] = Returned(maxRetries[c], Out(c, maxRetries[c]))
           /\ Len(reqs[c]) = maxRetries[c]
           /\ Len(waits[c]) = maxRetries[c] - 1

\* Three non-ok responses to a call with maxRetries 3: the third is returned.
C5_Witness ==
  \E c \in RetryCalls :
    /\ maxRetries[c] = 3 /\ Len(outs[c]) = 3
    /\ \A k \in 1..3 : PlainFailure(Out(c, k))
    /\ result[c].type = "response" /\ result[c].req = 3 /\ ~(result[c].resp.status \in 200..299)

RECURSIVE SplitDots(_, _)
\* The labels of a hostname: s cut at every ".", cur the label being read.
SplitDots(s, cur) ==
  IF s = "" THEN <<cur>>
  ELSE IF Head(s) = "." THEN <<cur>> \o SplitDots(Tail(s), "")
  ELSE SplitDots(Tail(s), cur \o Head(s))

Labels(h) == SplitDots(h, "")

\* The labels of h end with the labels of an allow-list entry: h is the entry
\* or a name below it.
OnAllowList(h) ==
  \E e \in {"raw.githubusercontent.com", "api.github.com"} :
    /\ Len(Labels(e)) <= Len(Labels(h))
    /\ SubSeq(Labels(h), Len(Labels(h)) - Len(Labels(e)) + 1, Len(Labels(h))) = Labels(e)

Disallowed == Failed("DisallowedOrigin", 0, 0)

\* The URLs of the calls with the hostname the URL standard gives each: the
\* plain ones, and the spellings in which the host is not the text after
\* "https://".
Named ==
  { [url |-> "https://" \o h \o p, host |-> h] : h \in Hosts, p \in Paths }
    \cup { [url |-> "HTTPS://API.GitHub.com/x", host |-> "api.github.com"],
           [url |-> "http://raw.githubusercontent.com/x", host |-> "raw.githubusercontent.com"],
           [url |-> "https://api.github.com:8443/x", host |-> "api.github.com"],
           [url |-> "https://user:pw@api.github.com/x", host |-> "api.github.com"],
           [url |-> "https://api.github.com@evil.net/x", host |-> "evil.net"],
           [url |-> "https://api.github.com\\@evil.net/x", host |-> "api.github.com"],
           [url |-> "https:sub.api%2Egithub.com/search?q=a+b c", host |-> "sub.api.github.com"],
           [url |-> "https://0x7f.1/api.github.com", host |-> "127.0.0.1"],
           [url |-> "ftp://evil.net:21/.api.github.com", host |-> "evil.net"] }

\* C6: a fetchWithCORS call for a URL whose host is not on the allow-list has
\* failed with the disallowed-origin error and has handed nothing to fetch.
C6_DisallowedHostNoRequest ==
  \A c \in CORSCalls :
    \A u \in Named :
      (url[c] = u.url /\ ~OnAllowList(u.host)) =>
        /\ pc[c] = "done"
        /\ result[c] = Disallowed
        /\ reqs[c] = <<>>
        /\ outs[c] = <<>>

\* fetchWithCORS("https://notgithub.com/x") has failed without a request.
C6_Witness ==
  \E c \in CORSCalls :
    url[c] = "https://notgithub.com/x" /\ result[c] = Disallowed /\ reqs[c] = <<>>

\* The k-th path of a call for u starts with: nothing for the direct request,
\* then the proxy templates in the order of the list.
PathPrefix(k) ==
  CASE k = 1 -> "" [] k = 2 -> "https://api.allorigins.win/raw?url=" [] k = 3 -> "https://corsproxy.io/?"

\* The k-th path of c failed: its fetch threw.  A path that received a
\* response, whatever its status, succeeded.
PathFailed(c, k) == Out(c, k).throw

\* C7: a fetchWithCORS call issues its requests in the order direct, proxy[0],
\* proxy[1]; a request is issued only when every earlier one has settled and
\* failed, and the response of the first path that succeeds is what the call
\* returns, with no later path requested.
C7_FixedPathOrder ==
  \A c \in CORSCalls :
    /\ Len(reqs[c]) <= 3
    /\ Len(reqs[c]) > 0 => reqs[c][1] = url[c]
    /\ \A k \in 2..Len(reqs[c]) :
         /\ StartsWith(reqs[c][k], PathPrefix(k))
         /\ Len(reqs[c][k]) > Len(url[c]) + Len(PathPrefix(k))
         /\ url[c] = "https://api.github.com/x" =>
              reqs[c][k] = PathPrefix(k) \o "https%3A%2F%2Fapi.github.com%2Fx"
         /\ url[c] = "https:sub.api%2Egithub.com/search?q=a+b c" =>
              reqs[c][k] = PathPrefix(k)
                             \o "https%3Asub.api%252Egithub.com%2Fsearch%3Fq%3Da%2Bb%20c"
         /\ Len(outs[c]) >= k - 1
         /\ \A j \in 1..(k - 1) : PathFailed(c, j)
    /\ \A k \in 1..Len(outs[c]) :
         ~PathFailed(c, k) =>
           /\ pc[c] = "done"
           /\ result[c] = Returned(k, Out(c, k))
           /\ Len(reqs[c]) = k

\* C8: a response with any status, ok or not, to the direct request
\* or to a proxy request is what the call returns, and no later path is
\* requested.
C8_AnyResponseReturned ==
  \A c \in CORSCalls :
    \A k \in 1..Len(outs[c]) :
      ~Out(c, k).throw =>
        /\ result[c] = Returned(k, Out(c, k))
        /\ Len(reqs[c]) = k

\* The call failed after its request to the last proxy settled.
FailedAfterWalk(c) ==
  pc[c] = "done" /\ result[c].type = "error" /\ Len(outs[c]) = 3

\* The proxy requests of c that threw (requests 2 and 3).
ProxyThrows(c) == { k \in 2..Len(outs[c]) : Out(c, k).throw }

SetMax(S) == CHOOSE x \in S : \A y \in S : y <= x

\* C9: a call that fails after walking the proxy list fails with the
\* exception of the last proxy of the list, or with the generic error when no
\* proxy threw.
C9_LastProxyErrorPropagated ==
  \A c \in CORSCalls :
    FailedAfterWalk(c) =>
      \/ result[c] = Failed("TransportFailure", 3, 0)
      \/ result[c] = Failed("AllProxiesFailed", 0, 0) /\ ProxyThrows(c) = {}

\* The call was let through the allow-list check: the direct request was
\* issued.
Accepted(c) == reqs[c] # <<>> /\ reqs[c][1] = url[c]

\* C10: the allow-list check lets a URL through exactly when its hostname is an
\* allow-list entry or a name below one, whatever its path and query say:
\* evilapi.github.com and a URL that names an entry in its query only are
\* rejected, sub.api.github.com is accepted.
C10_DotBoundaryMatch ==
  \A c \in CORSCalls :
    /\ \A u \in Named :
         url[c] = u.url =>
           /\ Accepted(c) <=> OnAllowList(u.host)
           /\ result[c] = Disallowed <=> ~OnAllowList(u.host)
    /\ url[c] = "https://evilapi.github.com/x" => result[c] = Disallowed
    /\ url[c] = "https://notgithub.com/evil?x=api.github.com" => result[c] = Disallowed
    /\ url[c] = "https://sub.api.github.com/x" => Accepted(c)
    /\ url[c] = "https://api.github.com/evil?x=api.github.com" => Accepted(c)
    /\ url[c] = "https://api.github.com@evil.net/x" => result[c] = Disallowed
    /\ url[c] = "ftp://evil.net:21/.api.github.com" => result[c] = Disallowed
    /\ url[c] = "HTTPS://API.GitHub.com/x" => Accepted(c)

\* fetchWithCORS("https://evilapi.github.com/x") was rejected.
C10_Witness ==
  \E c \in CORSCalls :
    url[c] = "https://evilapi.github.com/x" /\ result[c] = Disallowed /\ pc[c] = "done"

\* Strings that are no absolute URL: new URL has no scheme to read, no host,
\* or a port that is no number.
Unparseable ==
  { "api.github.com/x", "notgithub.com/x", "https://", "https://api.github.com:x/" }

\* C11: for an input that does not parse as an absolute URL the origin check
\* answers "not allowed" and raises nothing: a fetchWithCORS call on such an
\* input has failed with the disallowed-origin error and issued no request.
C11_UnparseableIsDisallowed ==
  \A c \in CORSCalls :
    url[c] \in Unparseable =>
      /\ pc[c] = "done"
      /\ result[c] = Disallowed
      /\ reqs[c] = <<>>

\* The requests of c handed to fetch and not settled yet.
InFlight(c) == Len(reqs[c]) - Len(outs[c])

\* C12: within one call at most one request is in flight at any moment, none
\* while the call awaits a timer; a request is issued only when every earlier
\* request of the call has settled and the timer the call set last is due.
C12_OneRequestAtATime ==
  [][\A c \in Calls :
       /\ InFlight(c)' \in {0, 1}
       /\ pc'[c] = "timer" => InFlight(c)' = 0
       /\ pc'[c] = "inflight" <=> InFlight(c)' = 1
       /\ Len(reqs'[c]) > Len(reqs[c]) =>
            /\ Len(reqs'[c]) = Len(reqs[c]) + 1
            /\ Len(outs'[c]) = Len(reqs[c])
            /\ wake[c] <= now'
            /\ pc[c] = "timer" => Len(waits[c]) > 0 /\ now' >= outs[c][Len(outs[c])].at + waits[c][Len(waits[c])].ms
    ]_vars

\* Both calls run interleaved: one awaits its backoff timer while a request of
\* the other is in flight, and the first has issued a request before.
C12_Witness ==
  \E c, d \in Calls :
    /\ c # d
    /\ pc[c] = "timer" /\ Len(reqs[c]) = 1 /\ InFlight(c) = 0
    /\ pc[d] = "inflight" /\ Len(reqs[d]) = 2 /\ InFlight(d) = 1

RECURSIVE RetryAlone(_, _, _, _)
\* fetchWithRetry with maxRetries n run on its own against the logged
\* responses: k of them are consumed, each followed by a timer, and ws are the
\* timers.  The answer is the number of requests, the timers and the result.
RetryAlone(n, log, k, ws) ==
  IF k >= n THEN [reqs |-> k, waits |-> ws, result |-> Undefined]
  ELSE IF Len(log) <= k THEN [reqs |-> k + 1, waits |-> ws, result |-> Pending]
  ELSE
    LET o == log[k + 1].o
        t == log[k + 1].at
        rate == ~o.throw /\ o.status = 403 /\ o.remaining = "0"
        reset == ParseInt(o.reset)
        inwin == rate /\ ~reset.nan /\ reset.n * 1000 - t > 0 /\ reset.n * 1000 - t < 60000
        fails == \/ o.throw
                 \/ rate /\ ~inwin
                 \/ ~rate /\ ~(o.status \in 200..299) /\ k < n - 1
        err == IF o.throw THEN Failed("TransportFailure", k + 1, 0)
               ELSE IF rate THEN Failed("RateLimited", k + 1, IF reset.nan THEN -1 ELSE reset.n * 1000)
               ELSE Failed("HTTP", k + 1, o.status)
        delay == IF 1000 * 2^k < 10000 THEN 1000 * 2^k ELSE 10000
    IN IF inwin
         THEN RetryAlone(n, log, k + 1,
                Append(ws, [kind |-> "ratelimit", ms |-> reset.n * 1000 - t, after |-> k + 1]))
       ELSE IF ~fails THEN [reqs |-> k + 1, waits |-> ws, result |-> Returned(k + 1, o)]
       ELSE IF k = n - 1 THEN [reqs |-> k + 1, waits |-> ws, result |-> err]
       ELSE RetryAlone(n, log, k + 1,
              Append(ws, [kind |-> "backoff", ms |-> delay, after |-> k + 1]))

\* fetchWithCORS(u) run on its own against the logged responses.
CORSAlone(u, log) ==
  LET oks == { k \in 1..Len(log) : ~log[k].o.throw /\ log[k].o.status \in 200..299 }
      first == CHOOSE k \in oks : \A j \in oks : k <= j
      thrown == { k \in 2..Len(log) : log[k].o.throw }
  IN IF ~ParsesAsURL(u) THEN [reqs |-> 0, waits |-> <<>>, result |-> Failed("TypeError", 0, 0)]
     ELSE IF ~OnAllowList(Hostname(u)) THEN [reqs |-> 0, waits |-> <<>>, result |-> Disallowed]
     ELSE IF oks # {} THEN [reqs |-> first, waits |-> <<>>, result |-> Returned(first, log[first].o)]
     ELSE IF Len(log) < 3 THEN [reqs |-> Len(log) + 1, waits |-> <<>>, result |-> Pending]
     ELSE [reqs |-> 3, waits |-> <<>>,
           result |-> IF thrown = {} THEN Failed("AllProxiesFailed", 0, 0)
                      ELSE Failed("TransportFailure", SetMax(thrown), 0)]

\* What call c does when it runs alone against the responses it has met.
Alone(c) ==
  IF kind[c] = "retry" THEN RetryAlone(maxRetries[c], outs[c], 0, <<>>)
  ELSE CORSAlone(url[c], outs[c])

\* The URL of the k-th request of c when it runs alone.
RequestAlone(c, k) ==
  IF kind[c] = "retry" \/ k = 1 THEN url[c]
  ELSE PathPrefix(k) \o encodeURIComponent(url[c])

\* C13: when calls run interleaved at their awaits, each call owns its attempt
\* index and its timers: under every interleaving the requests, the delays and
\* the outcome of a call are those of the same call run alone against the same
\* transport responses.
C13_CallsAreIndependent ==
  \A c \in Calls :
    kind[c] # "none" =>
      /\ waits[c] = Alone(c).waits
      /\ \A k \in 1..Len(reqs[c]) : reqs[c][k] = RequestAlone(c, k)
      /\ pc[c] = "done" =>
           /\ result[c] = Alone(c).result
           /\ Len(reqs[c]) = Alone(c).reqs
      /\ pc[c] # "done" =>
           /\ result[c] = Pending
           /\ Len(reqs[c]) \in { Len(outs[c]), Len(outs[c]) + 1 }

\* A fetchWithRetry call and a fetchWithCORS call have both ended, and the
\* second made its three requests across the backoff timer of the first: its
\* first response came before the timer fired and its last one after.
C13_Witness ==
  \E c, d \in Calls :
    /\ kind[c] = "retry" /\ pc[c] = "done" /\ Len(outs[c]) = 2 /\ Len(waits[c]) = 1
    /\ kind[d] = "cors" /\ pc[d] = "done" /\ Len(outs[d]) = 3
    /\ outs[d][1].at = outs[c][1].at
    /\ outs[d][3].at = outs[c][2].at
    /\ outs[c][2].at > outs[c][1].at

\* The backoff timers of c, the rate-limit timers left out.
BackoffWaits(c) == SelectSeq(waits[c], LAMBDA w : w.kind = "backoff")

\* C14: whatever the transport does, the backoff delays of a fetchWithRetry
\* call with maxRetries n, rate-limit waits not counted, never add up to more
\* than the sum over j in 0..n-1 of min(1000 * 2^j, 10000).  The last term of
\* that sum is never waited: no timer follows attempt n-1, so for n >= 1 the
\* sum over j in 0..n-2 bounds the delays as well.
C14_TotalBackoffBounded ==
  \A c \in RetryCalls :
    /\ SumMs(BackoffWaits(c)) <= BackoffSum(maxRetries[c])
    /\ maxRetries[c] >= 1 => SumMs(BackoffWaits(c)) <= BackoffSum(maxRetries[c] - 1)

\* A call with maxRetries 6 has waited the five backoff delays 1000, 2000,
\* 4000, 8000 and 10000 ms: 25000 of the 35000 ms the bound allows.
C14_Witness ==
  \E c \in RetryCalls :
    /\ maxRetries[c] = 6 /\ pc[c] = "done"
    /\ Len(BackoffWaits(c)) = 5 /\ SumMs(BackoffWaits(c)) = 25000
    /\ BackoffSum(maxRetries[c]) = 35000

\* C15: the backoff timer set after a failed attempt with index i, which is
\* never the last attempt, is due min(1000 * 2^i, 10000) ms later: 1000, 2000,
\* 4000, 8000, then 10000 for every later attempt, a function of i alone.
C15_BackoffCurve ==
  [][\A c \in Calls :
       ( /\ Len(waits'[c]) = Len(waits[c]) + 1
         /\ waits'[c][Len(waits'[c])].kind = "backoff" ) =>
         LET ms == waits'[c][Len(waits'[c])].ms
             idx == i[c]
         IN /\ idx < maxRetries[c] - 1
            /\ ms = IF 1000 * 2^idx < 10000 THEN 1000 * 2^idx ELSE 10000
            /\ ms <= 10000
            /\ idx = 0 => ms = 1000
            /\ idx = 1 => ms = 2000
            /\ idx = 2 => ms = 4000
            /\ idx = 3 => ms = 8000
            /\ idx >= 4 => ms = 10000
            /\ wake'[c] = now + ms
    ]_vars

\* The fifth backoff timer of a call, set after attempt 4, is capped at
\* 10000 ms where doubling would give 16000.
C15_Witness ==
  \E c \in RetryCalls :
    /\ Len(waits[c]) = 5
    /\ waits[c][4] = [kind |-> "backoff", ms |-> 8000, after |-> 4]
    /\ waits[c][5] = [kind |-> "backoff", ms |-> 10000, after |-> 5]

\* The response carries the rate-limit signal: status 403 and the header
\* X-RateLimit-Remaining equal to the string "0".
Signal(o) == ~o.throw /\ o.status = 403 /\ o.remaining = "0"

\* C16: fetchWithRetry takes the rate-limit path, the wait or the rate-limit
\* error, only for a response with status 403 and X-RateLimit-Remaining "0".
\* Any other response that is not ok, a 403 without that header value or
\* another status with it, takes the path of a plain failure: the backoff
\* delay of its attempt and a new request, or on the last attempt the return of
\* the response; any other response that is ok is returned.
C16_RateLimitOnly403Zero ==
  \A c \in RetryCalls :
    /\ \A w \in 1..Len(waits[c]) :
         waits[c][w].kind = "ratelimit" => Signal(Out(c, waits[c][w].after))
    /\ (result[c].type = "error" /\ result[c].name = "RateLimited") =>
         Signal(Out(c, result[c].req))
    /\ \A k \in 1..Len(outs[c]) :
         (~Out(c, k).throw /\ ~Signal(Out(c, k))) =>
           IF Out(c, k).status \in 200..299 \/ k = maxRetries[c]
             THEN pc[c] = "done" /\ result[c] = Returned(k, Out(c, k)) /\ Len(waits[c]) = k - 1
             ELSE /\ Len(waits[c]) >= k
                  /\ waits[c][k] =
                       [kind |-> "backoff", ms |-> BackoffSum(k) - BackoffSum(k - 1), after |-> k]

\* A 403 whose X-RateLimit-Remaining is "1" and a 500 whose
\* X-RateLimit-Remaining is "0" were each followed by a backoff timer, and a
\* 403 with "0" by a rate-limit wait.
C16_Witness ==
  \E c \in RetryCalls :
    /\ Len(outs[c]) = 3 /\ Len(waits[c]) = 3
    /\ Out(c, 1).status = 403 /\ Out(c, 1).remaining = "1" /\ waits[c][1].kind = "backoff"
    /\ Out(c, 2).status = 500 /\ Out(c, 2).remaining = "0" /\ waits[c][2].kind = "backoff"
    /\ Signal(Out(c, 3)) /\ waits[c][3].kind = "ratelimit"

\* The call has settled: it resolved with a response or rejected with an error.
Settled(c) == pc[c] = "done" /\ result[c].type \in {"response", "error"}

\* C17: one fetchWithCORS call requests the direct URL and each of the two
\* proxies at most once, three requests at most, and sets no timer between
\* them: every response is handled at the time of the first.  The call always
\* ends, with a response or with an error.
C17_FallbackBoundedAndEnds ==
  /\ [](\A c \in CORSCalls :
          /\ Len(reqs[c]) <= 3
          /\ \A j, k \in 1..Len(reqs[c]) : j # k => reqs[c][j] # reqs[c][k]
          /\ waits[c] = <<>>
          /\ pc[c] # "timer"
          /\ \A k \in 1..Len(outs[c]) : outs[c][k].at = outs[c][1].at
          /\ pc[c] = "done" => Settled(c))
  /\ \A c \in Calls : (kind[c] = "cors") ~> Settled(c)

\* A call has asked the direct URL and both proxies, was answered with an
\* exception or a status that is not ok each time, and has failed.
C17_Witness ==
  \E c \in CORSCalls :
    /\ Len(reqs[c]) = 3 /\ Len(outs[c]) = 3
    /\ \A k \in 1..3 : Out(c, k).throw \/ ~(Out(c, k).status \in 200..299)
    /\ pc[c] = "done" /\ result[c].type = "error"

\* C18: a fetchWithRetry call with maxRetries >= 1 that has completed has
\* returned a response or failed with an error: it never completes with no
\* response, whatever the transport answered.
C18_NeverUndefined ==
  \A c \in RetryCalls :
    (maxRetries[c] >= 1 /\ pc[c] = "done") =>
      /\ result[c].type \in {"response", "error"}
      /\ result[c] # Undefined

\* C19: whatever the transport returns, rate-limit responses with a wait inside
\* the window included, a fetchWithRetry call with maxRetries n issues at most
\* n requests, sets at most one timer per request, and ends.
C19_RetryTerminates ==
  /\ [](\A c \in RetryCalls :
          /\ Len(reqs[c]) <= maxRetries[c]
          /\ Len(waits[c]) <= Len(reqs[c])
          /\ i[c] <= maxRetries[c])
  /\ \A c \in Calls : (kind[c] = "retry") ~> (pc[c] = "done")

\* A call with maxRetries 3 set a timer after each of its three requests, the
\* last two for a rate-limit wait inside the window, and has ended after its
\* three requests.
C19_Witness ==
  \E c \in RetryCalls :
    /\ maxRetries[c] = 3 /\ Len(reqs[c]) = 3 /\ Len(waits[c]) = 3
    /\ waits[c][2].kind = "ratelimit" /\ waits[c][3].kind = "ratelimit"
    /\ Signal(Out(c, 3)) /\ InWindow(Out(c, 3), outs[c][3].at)
    /\ pc[c] = "done"

====
